---- MODULE Spec2Model ----
(***************************************************************************)
(* Lifetime analysis core of dyon (src/lifetime/node.rs):                  *)
(*   - convert_meta_data, the builder of the node array from the meta      *)
(*     data event stream;                                                  *)
(*   - Node::has_lifetime and Node::lifetime, the lifetime solver.         *)
(***************************************************************************)
EXTENDS Integers, Sequences, FiniteSets, TLC

VARIABLES
    nodes,      \* Vec<Node>: the node array (1-based here, 0-based in Rust)
    parents,    \* convert_meta_data: stack of the open nodes' indices
    skip,       \* convert_meta_data: Option<usize>, end of a parsed type subtree
    i,          \* convert_meta_data: index of the next event of `data`
    d,          \* convert_meta_data: the event read last (data[i - 1])
    status,     \* convert_meta_data: "running", or the value returned
    arg_names,  \* solver input: ArgNames, (function, name) -> (arg, ordinal)
    query,      \* solver: the node whose lifetime was asked for last
    result,     \* solver: what Node::lifetime returned for `query`
    lts,        \* chain walk: the lts of the Call whose chains are walked
    lt_ind,     \* chain walk: position of the 'args iterator in lts
    lt,         \* chain walk: the local `lt` of the inner loop
    pc          \* chain walk: where the walk stands

vars == <<nodes, parents, skip, i, d, status, arg_names, query, result,
          lts, lt_ind, lt, pc>>

builder_vars == <<parents, skip, i, d, status>>
solver_vars == <<arg_names, query, result>>
chain_vars == <<lts, lt_ind, lt, pc>>

-----------------------------------------------------------------------------
(* Bounds of the model.                                                    *)

\* Longest event stream the builder is run on.
MaxEvents == 5
\* Most nodes the builder is allowed to open (StartNode is refused beyond).
MaxNodes == 3
\* Longest type subtree the external type parser may report (next_offset).
MaxTypeLen == 3
\* An f64 v of the event stream is the integer v * Scale.
Scale == 2
\* Largest f64 of the event stream, in whole units.
MaxNum == 2
\* Most children of the node a lifetime is asked for.
MaxChildren == 2
\* Longest lts of a Call.
MaxLts == 3

-----------------------------------------------------------------------------
(* Option<T>: None is the empty sequence, Some(x) the one-element one.     *)

None == <<>>
Some(x) == <<x>>
IsSome(o) == Len(o) = 1
Unwrap(o) == o[1]

\* Arc<String>: a string is the sequence of its pieces, so that push and
\* push_str are concatenation.
Str(s) == <<s>>

\* Range of the event at index k of `data`; Range::empty(0) for a node that
\* has not ended.
RangeOf(k) == [offset |-> k, length |-> 1]
RangeEmpty == [offset |-> 0, length |-> 0]

\* Rust index k (0-based) of the node array.
At(ns, k) == ns[k + 1]

\* Lt: Default, Return, Arg(x).
LtDefault == [tag |-> "Default", arg |-> 0]
LtReturn == [tag |-> "Return", arg |-> 0]
LtArg(x) == [tag |-> "Arg", arg |-> x]

\* What Node::lifetime gives: None, Some(Lifetime), a panic, or no answer at
\* all (the call never returns).
NoLifetime == [tag |-> "None", ind |-> 0, path |-> <<>>]
Local(k) == [tag |-> "Local", ind |-> k, path |-> <<>>]
Current(k) == [tag |-> "Current", ind |-> k, path |-> <<>>]
Argument(k, path) == [tag |-> "Argument", ind |-> k, path |-> path]
Return(path) == [tag |-> "Return", ind |-> 0, path |-> path]
Panicked == [tag |-> "Panic", ind |-> 0, path |-> <<>>]
Diverges == [tag |-> "Diverge", ind |-> 0, path |-> <<>>]

IsLifetime(l) == l.tag \in {"Local", "Current", "Argument", "Return"}
Abnormal(l) == l.tag \in {"Panic", "Diverge"}

-----------------------------------------------------------------------------
(* Kinds.                                                                  *)

\* The kinds node.rs names.
Kinds ==
    {"Pow", "Sum", "Prod", "SumVec4", "Min", "Max", "Any", "All",
     "Vec4", "Vec4UnLoop", "Swizzle", "Assign", "For", "ForN", "Link",
     "LinkFor", "Closure", "CallClosure", "Grab", "TryExpr", "Norm",
     "Add", "Mul", "Compare", "Item", "Arg", "Current", "Call", "CallArg",
     "LinkItem", "ReturnVoid", "Loop", "Go", "Break", "Continue", "Sift",
     "ProdVec4", "Start", "End", "Object", "KeyValue", "Val", "UnOp",
     "Left", "Right", "Expr", "Return", "Array", "ArrayItem", "ArrayFill",
     "Base", "Exp", "Block", "If", "TrueBlock", "ElseIfBlock", "ElseBlock",
     "Cond", "ElseIfCond", "Fill", "N", "Type", "RetType"}

\* Kind::new(kind_name): the kind of that name, None for an unknown name.
KindNew(kind_name) == IF kind_name \in Kinds THEN Some(kind_name) ELSE None

\* The type a StartNode gives the node it opens.
DefaultTy(kind) ==
    CASE kind \in {"Array", "ArrayFill"} -> Some("Array")
      [] kind \in {"Vec4", "Vec4UnLoop"} -> Some("Vec4")
      [] kind = "Object" -> Some("Object")
      [] kind = "Sift" -> Some("Array")
      [] kind \in {"Sum", "Prod"} -> Some("F64")
      [] kind = "Norm" -> Some("F64")
      [] kind = "Swizzle" -> Some("F64")
      [] kind \in {"Link", "LinkFor"} -> Some("Link")
      [] kind \in {"Any", "All"} -> Some("Secret(Bool)")
      [] kind \in {"Min", "Max"} -> Some("Secret(F64)")
      [] kind \in {"For", "ForN"} -> Some("Void")
      [] OTHER -> None

\* The node a StartNode pushes.
NewNode(kind, ty, parent, start) ==
    [kind |-> kind, alias |-> None, names |-> <<>>, ty |-> ty,
     mutable |-> FALSE, try |-> FALSE, grab_level |-> 0,
     source |-> RangeEmpty, parent |-> parent, children |-> <<>>,
     start |-> start, end |-> 0, lifetime |-> None, declaration |-> None,
     op |-> None, binops |-> <<>>, lts |-> <<>>]

-----------------------------------------------------------------------------
(* convert_meta_data: the events.                                          *)

\* Names a StartNode carries in the streams of the model; "Bogus" is no kind.
StartNames == {"Block", "Type", "RetType", "Bogus"}

\* What the external Type::from_meta_data answers on data[i..]: Ok with the
\* range it consumed and the type, or an error.
TypeParses ==
    {[ok |-> TRUE, next_offset |-> n, val |-> "Parsed"] : n \in 1..MaxTypeLen}
    \cup {[ok |-> FALSE, next_offset |-> 0, val |-> "Parsed"]}
NoParse == [ok |-> FALSE, next_offset |-> 0, val |-> "Parsed"]

StringKeys == {"name", "word", "other"}
StringVals == {Str("a")}
BoolKeys == {"mut", "return_void"}
BoolVals == {TRUE}
NumberKeys == {"grab_level"}
\* f64 values -1/2, 0, 1/2, 1, .. MaxNum (with Scale = 2).
NumberVals == (0 - 1)..(MaxNum * Scale)

Event(type, key, sval, bval, nval, parse) ==
    [type |-> type, key |-> key, sval |-> sval, bval |-> bval,
     nval |-> nval, parse |-> parse]

StartEvents ==
    {Event("StartNode", k, None, FALSE, 0, p) :
        k \in StartNames \ {"Type", "RetType"}, p \in {NoParse}}
    \cup {Event("StartNode", k, None, FALSE, 0, p) :
        k \in {"Type", "RetType"}, p \in TypeParses}
EndEvents == {Event("EndNode", "", None, FALSE, 0, NoParse)}
StringEvents ==
    {Event("String", k, v, FALSE, 0, NoParse) :
        k \in StringKeys, v \in StringVals}
BoolEvents ==
    {Event("Bool", k, None, b, 0, NoParse) : k \in BoolKeys, b \in BoolVals}
NumberEvents ==
    {Event("F64", k, None, FALSE, n, NoParse) :
        k \in NumberKeys, n \in NumberVals}
    \cup {Event("F64", "num", None, FALSE, 0, NoParse)}
Events ==
    StartEvents \cup EndEvents \cup StringEvents \cup BoolEvents
    \cup NumberEvents
NoEvent == Event("None", "", None, FALSE, 0, NoParse)

\* `val as u16` of an f64 that is at least 1: truncation, saturating.
AsU16(nval) ==
    IF nval \div Scale > 65535 THEN 65535
    ELSE IF nval < 0 THEN 0 ELSE nval \div Scale

\* A slip in the grab level test: `val < 0.0`.
BelowOneZero(nval) == nval < 0

\* `val < 1.0`
BelowOne(nval) == nval < Scale

-----------------------------------------------------------------------------
(* convert_meta_data: one step per event of `data`.                        *)

Running == status.tag = "running" /\ i < MaxEvents

\* `if let Some(j) = skip { if j > i { continue; } }`
Skipping == IsSome(skip) /\ Unwrap(skip) > i

Last(s) == s[Len(s)]
Pop(s) == SubSeq(s, 1, Len(s) - 1)

\* Where convert_meta_data stands: in its loop, or left with Ok(()), with
\* Err(range.wrap(msg)), or by a panic (an unwrap of None).
InLoop == [tag |-> "running", err |-> "", range |-> RangeEmpty]
Ok == [tag |-> "Ok", err |-> "", range |-> RangeEmpty]
Err(range, msg) == [tag |-> "Err", err |-> msg, range |-> range]
Panic == [tag |-> "panic", err |-> "", range |-> RangeEmpty]

\* nodes with field f of node k (Rust index) set to v.
SetField(ns, k, f, v) == [ns EXCEPT ![k + 1] = [@ EXCEPT ![f] = v]]

\* An event that only writes a field of the node on top of `parents`
\* (`*parents.last().unwrap()` panics on an empty stack).
OnTop(e, f, v) ==
    /\ d' = e
    /\ IF parents = <<>>
       THEN /\ status' = Panic
            /\ UNCHANGED <<nodes, parents, skip, i>>
       ELSE /\ nodes' = SetField(nodes, Last(parents), f, v)
            /\ i' = i + 1
            /\ UNCHANGED <<parents, skip, status>>

\* An event the builder reads and ignores.
Ignored(e) ==
    /\ d' = e
    /\ i' = i + 1
    /\ UNCHANGED <<nodes, parents, skip, status>>

\* An event inside a type subtree that was parsed.
SkipEvent(e) ==
    /\ Running
    /\ Skipping
    /\ Ignored(e)
    /\ UNCHANGED <<solver_vars, chain_vars>>

\* The type branch taken whatever the type parser answers.
TypeParsedAlways(e) ==
    \/ Unwrap(KindNew(e.key)) = "Type"
    \/ Unwrap(KindNew(e.key)) = "RetType"

\* A StartNode of a type subtree the type parser accepts.
TypeParsed(e) ==
    /\ \/ Unwrap(KindNew(e.key)) = "Type"
       \/ Unwrap(KindNew(e.key)) = "RetType"
    /\ e.parse.ok

\* The parent taken to be the node pushed before, not the top of the stack.
ParentOfPrevious(ps, ns) ==
    IF ns = <<>> THEN None ELSE Some(Len(ns) - 1)

\* `parents.last().map(|i| *i)`
ParentOf(ps, ns) == IF ps = <<>> THEN None ELSE Some(Last(ps))

\* The node-pushing part of StartNode.
PushNode(e, kind) ==
    LET parent == ParentOf(parents, nodes)
    IN  /\ parents' = Append(parents, Len(nodes))
        /\ nodes' = Append(nodes, NewNode(kind, DefaultTy(kind), parent, i))
        /\ i' = i + 1
        /\ UNCHANGED <<skip, status>>

StartNode(e) ==
    /\ Running
    /\ ~Skipping
    /\ e.type = "StartNode"
    /\ Len(nodes) < MaxNodes
    /\ d' = e
    /\ IF KindNew(e.key) = None
       THEN /\ status' = Err(RangeOf(i), "Unknown kind")
            /\ UNCHANGED <<nodes, parents, skip, i>>
       ELSE IF TypeParsed(e)
       THEN IF parents = <<>>
            THEN /\ status' = Panic
                 /\ UNCHANGED <<nodes, parents, skip, i>>
            ELSE /\ nodes' = SetField(nodes, Last(parents), "ty",
                                      Some(e.parse.val))
                 /\ skip' = Some(e.parse.next_offset + i)
                 /\ i' = i + 1
                 /\ UNCHANGED <<parents, status>>
       ELSE PushNode(e, Unwrap(KindNew(e.key)))
    /\ UNCHANGED <<solver_vars, chain_vars>>

\* An EndNode that sets the source and leaves `end` as it was.
EndedNoEnd(ns, ind, k) ==
    [ns EXCEPT ![ind + 1] = [@ EXCEPT !.source = RangeOf(k)]]

\* `node.source = d.range(); node.end = i + 1;`
Ended(ns, ind, k) ==
    [ns EXCEPT ![ind + 1] = [@ EXCEPT !.source = RangeOf(k), !.end = k + 1]]

EndNode(e) ==
    /\ Running
    /\ ~Skipping
    /\ e.type = "EndNode"
    /\ d' = e
    /\ IF parents = <<>>
       THEN /\ status' = Panic
            /\ UNCHANGED <<nodes, parents, skip, i>>
       ELSE LET ind == Last(parents)
                ended == Ended(nodes, ind, i)
                rest == Pop(parents)
            IN  /\ parents' = rest
                /\ nodes' =
                     IF rest = <<>> THEN ended
                     ELSE [ended EXCEPT ![Last(rest) + 1] =
                              [@ EXCEPT !.children = Append(@, ind)]]
                /\ i' = i + 1
                /\ UNCHANGED <<skip, status>>
    /\ UNCHANGED <<solver_vars, chain_vars>>

\* names after a "word" event with value val.
Word(node, val) ==
    IF Len(node.names) = 0
    THEN <<IF node.kind # "CallClosure" THEN val \o Str("_") ELSE val>>
    ELSE [node.names EXCEPT ![1] = @ \o Str("_") \o val]

StringEvent(e) ==
    /\ Running
    /\ ~Skipping
    /\ e.type = "String"
    /\ CASE e.key = "alias" -> OnTop(e, "alias", Some(e.sval))
         [] e.key = "name" ->
              OnTop(e, "names",
                    Append(At(nodes, Last(parents)).names, e.sval))
         [] e.key = "word" ->
              OnTop(e, "names", Word(At(nodes, Last(parents)), e.sval))
         [] e.key = "lifetime" -> OnTop(e, "lifetime", Some(e.sval))
         [] e.key = "text" -> OnTop(e, "ty", Some("Text"))
         [] e.key = "color" -> OnTop(e, "ty", Some("Vec4"))
         [] OTHER -> Ignored(e)
    /\ UNCHANGED <<solver_vars, chain_vars>>

AssignOps == {":=", "=", "+=", "-=", "*=", "/=", "%=", "^="}
BinOps == {"*.", "x", "*", "/", "%", "&&"}

BoolEvent(e) ==
    /\ Running
    /\ ~Skipping
    /\ e.type = "Bool"
    /\ CASE e.key \in AssignOps -> OnTop(e, "op", Some(e.key))
         [] e.key = "mut" -> OnTop(e, "mutable", e.bval)
         [] e.key \in {"try", "try_item"} -> OnTop(e, "try", e.bval)
         [] e.key = "bool" -> OnTop(e, "ty", Some("Bool"))
         [] e.key = "returns" ->
              OnTop(e, "ty", IF e.bval THEN Some("Any") ELSE Some("Void"))
         [] e.key = "return_void" -> OnTop(e, "kind", "ReturnVoid")
         [] e.key \in BinOps ->
              OnTop(e, "binops",
                    Append(At(nodes, Last(parents)).binops, e.key))
         [] OTHER -> Ignored(e)
    /\ UNCHANGED <<solver_vars, chain_vars>>

NumberEvent(e) ==
    /\ Running
    /\ ~Skipping
    /\ e.type = "F64"
    /\ CASE e.key = "num" -> OnTop(e, "ty", Some("F64"))
         [] e.key = "grab_level" ->
              IF BelowOne(e.nval)
              THEN /\ d' = e
                   /\ status' =
                        Err(RangeOf(i), "Grab level must be at least 1")
                   /\ UNCHANGED <<nodes, parents, skip, i>>
              ELSE OnTop(e, "grab_level", AsU16(e.nval))
         [] OTHER -> Ignored(e)
    /\ UNCHANGED <<solver_vars, chain_vars>>

\* The end of `data`: the loop is left and Ok(()) returned.
Finish ==
    /\ status = InLoop
    /\ status' = Ok
    /\ UNCHANGED <<nodes, parents, skip, i, d>>
    /\ UNCHANGED <<solver_vars, chain_vars>>

InitBuilder ==
    /\ nodes = <<>>
    /\ parents = <<>>
    /\ skip = None
    /\ i = 0
    /\ d = NoEvent
    /\ status = InLoop
    /\ arg_names = {}
    /\ query = None
    /\ result = NoLifetime
    /\ lts = <<>>
    /\ lt_ind = 0
    /\ lt = LtDefault
    /\ pc = "idle"

NextBuilder ==
    \/ \E e \in Events : SkipEvent(e)
    \/ \E e \in StartEvents : StartNode(e)
    \/ \E e \in EndEvents : EndNode(e)
    \/ \E e \in StringEvents : StringEvent(e)
    \/ \E e \in BoolEvents : BoolEvent(e)
    \/ \E e \in NumberEvents : NumberEvent(e)
    \/ Finish

SpecBuilder == InitBuilder /\ [][NextBuilder]_vars

-----------------------------------------------------------------------------
(* Lifetimes and argument lifetime constraints.                            *)


\* The order of lifetimes, `a < b`: Local < Argument < Return; a Current is
\* comparable with nothing, and two lifetimes of one variant are not ordered
\* here.
Rank(l) ==
    CASE l.tag = "Local" -> 0
      [] l.tag = "Argument" -> 1
      [] l.tag = "Return" -> 2
      [] OTHER -> 0 - 1
LtLess(a, b) == Rank(a) >= 0 /\ Rank(b) >= 0 /\ Rank(a) < Rank(b)

\* arg_lifetime(declaration, arg, nodes, arg_names)
ArgLifetime(declaration, arg, ns, an) ==
    IF arg.lifetime = Some(Str("return"))
    THEN Return(<<declaration>>)
    ELSE IF IsSome(arg.lifetime)
    THEN LET hit == {a \in an : a.parent = arg.parent
                                 /\ a.name = Unwrap(arg.lifetime)}
         IN  IF hit = {} THEN Panicked
             ELSE Argument((CHOOSE a \in hit : TRUE).ind, <<declaration>>)
    ELSE LET own == {a \in an : a.arg = declaration}
         IN  IF own = {} THEN Panicked
             ELSE Argument((CHOOSE a \in own : TRUE).ind, <<>>)

-----------------------------------------------------------------------------
(* Node::has_lifetime and Node::lifetime.                                  *)

\* Node::name
Name(node) == IF Len(node.names) = 0 THEN None ELSE Some(node.names[1])

\* has_lifetime with Add, Mul and Compare taken to have a lifetime always.
HasLifetimeAlways(node) ==
    node.kind \notin
        {"Pow", "Sum", "Prod", "SumVec4", "Min", "Max", "Any", "All",
         "Vec4", "Vec4UnLoop", "Swizzle", "Assign", "For", "ForN", "Link",
         "LinkFor", "Closure", "CallClosure", "Grab", "TryExpr", "Norm"}

\* Node::has_lifetime
HasLifetime(node) ==
    CASE node.kind \in
            {"Pow", "Sum", "Prod", "SumVec4", "Min", "Max", "Any", "All",
             "Vec4", "Vec4UnLoop", "Swizzle", "Assign", "For", "ForN",
             "Link", "LinkFor", "Closure", "CallClosure", "Grab", "TryExpr",
             "Norm"} -> FALSE
      [] node.kind \in {"Add", "Mul", "Compare"} -> Len(node.children) = 1
      [] OTHER -> TRUE

\* Where the inner loop of the walk over one constraint ends: at "Default",
\* at "Return", in a panic (`self.lts[x]` out of bounds), or nowhere: `lt` is
\* a function of x alone, so the loop that sees an x again never ends.
RECURSIVE ChainEnd(_, _, _)
ChainEnd(ls, l, seen) ==
    CASE l.tag = "Default" -> "Default"
      [] l.tag = "Return" -> "Return"
      [] OTHER ->
           IF l.arg \in seen THEN "Loop"
           ELSE IF l.arg >= Len(ls) THEN "Panic"
           ELSE ChainEnd(ls, ls[l.arg + 1], seen \cup {l.arg})

\* The loop 'args with an Arg(x) taken for a Return, its link not followed.
RECURSIVE WalkArgsNoFollow(_, _)
WalkArgsNoFollow(ls, j) ==
    IF j > Len(ls) THEN "static"
    ELSE IF ls[j].tag = "Default" THEN WalkArgsNoFollow(ls, j + 1)
    ELSE "borrows"

\* The loop 'args from position j on: "static" when returns_static is left
\* true, "borrows" when a chain ends at Return.
RECURSIVE WalkArgs(_, _)
WalkArgs(ls, j) ==
    IF j > Len(ls) THEN "static"
    ELSE LET end == ChainEnd(ls, ls[j], {})
         IN  CASE end = "Default" -> WalkArgs(ls, j + 1)
               [] end = "Return" -> "borrows"
               [] OTHER -> end

\* The case of Node::lifetime a node falls in, the `return` name looked at
\* before the declaration.
CaseOfReturnFirst(self) ==
    IF ~HasLifetime(self) THEN "NoLifetime"
    ELSE IF self.kind = "Item" /\ Name(self) = Some(Str("return"))
    THEN "ReturnItem"
    ELSE IF IsSome(self.declaration) /\ self.kind = "Item" THEN "Declared"
    ELSE IF self.declaration = None /\ self.kind = "Call"
            /\ Len(self.lts) > 0
    THEN "Intrinsic"
    ELSE "Children"

\* The case of Node::lifetime a node falls in.
CaseOf(self) ==
    IF ~HasLifetime(self) THEN "NoLifetime"
    ELSE IF IsSome(self.declaration)
    THEN IF self.kind = "Item" THEN "Declared" ELSE "Children"
    ELSE IF self.kind = "Call" /\ Len(self.lts) > 0 THEN "Intrinsic"
    ELSE IF self.kind = "Item" /\ Name(self) = Some(Str("return"))
    THEN "ReturnItem"
    ELSE "Children"

\* The lifetime of an Item with a declaration.
Declared(ns, an, declaration) ==
    IF declaration >= Len(ns) THEN Panicked
    ELSE LET arg == At(ns, declaration)
         IN  IF arg.kind = "Arg"
             THEN ArgLifetime(declaration, arg, ns, an)
             ELSE IF arg.kind = "Current" THEN Current(declaration)
             ELSE Local(declaration)

\* The arms with a Cond or ElseIfCond child going on to the child's lifetime
\* like a TrueBlock.
ArmCondChild(kind, ckind) ==
    CASE ckind \in {"Start", "End", "Arg", "Current", "UnOp", "Compare",
                    "N"} -> "skip"
      [] ckind = "Item" -> IF kind = "CallClosure" THEN "skip" ELSE "child"
      [] ckind = "CallArg" ->
           IF kind \in {"Call", "CallClosure"} THEN "call_arg" ELSE "panic"
      [] ckind \in Kinds -> "child"
      [] OTHER -> "panic"

\* The arm of `match (self.kind, nodes[c].kind)`: "child" for the arms that
\* go on to the child's lifetime, "skip" for those that `continue`,
\* "call_arg" for the CallArg arm and "panic" for the last one.
Arm(kind, ckind) ==
    CASE ckind \in {"Start", "End", "Arg", "Current", "UnOp", "Compare",
                    "Cond", "ElseIfCond", "N"} -> "skip"
      [] ckind = "Item" -> IF kind = "CallClosure" THEN "skip" ELSE "child"
      [] ckind \in
            {"Link", "LinkFor", "LinkItem", "ReturnVoid", "Swizzle", "Loop",
             "Go", "For", "ForN", "Break", "Continue", "Sift", "SumVec4",
             "Sum", "Prod", "ProdVec4", "Min", "Max", "Any", "All",
             "Vec4UnLoop", "Vec4", "Assign", "Object", "KeyValue", "Val",
             "Add", "Mul", "Call", "Closure", "CallClosure", "Grab",
             "TryExpr", "Norm", "Left", "Right", "Expr", "Return", "Array",
             "ArrayItem", "ArrayFill", "Pow", "Base", "Exp", "Block", "If",
             "TrueBlock", "ElseIfBlock", "ElseBlock", "Fill"} -> "child"
      [] ckind = "CallArg" ->
           IF kind \in {"Call", "CallClosure"} THEN "call_arg" ELSE "panic"
      [] OTHER -> "panic"

\* The children of kind Arg of node k, in order.
ArgsOf(ns, k) ==
    SelectSeq(At(ns, k).children, LAMBDA c : At(ns, c).kind = "Arg")

\* The CallArg arm with every CallArg matched to the first declared Arg,
\* whatever its position.
CallArgArmFirst(ns, an, self, call_arg_ind) ==
    IF self.declaration = None THEN "child"
    ELSE LET args == ArgsOf(ns, Unwrap(self.declaration))
         IN  IF 0 >= Len(args) THEN "child"
             ELSE LET arg == args[1]
                      al == ArgLifetime(arg, At(ns, arg), ns, an)
                  IN  CASE al.tag = "Return" -> "child"
                        [] al.tag = "Panic" -> "panic"
                        [] OTHER -> "skip"

\* Whether the CallArg at position call_arg_ind of `self` goes on to its
\* lifetime: "child" if so, "skip" if not, "panic" if arg_lifetime panics.
CallArgArm(ns, an, self, call_arg_ind) ==
    IF self.declaration = None THEN "child"
    ELSE LET args == ArgsOf(ns, Unwrap(self.declaration))
         IN  IF call_arg_ind >= Len(args) THEN "child"
             ELSE LET arg == args[call_arg_ind + 1]
                      al == ArgLifetime(arg, At(ns, arg), ns, an)
                  IN  CASE al.tag = "Return" -> "child"
                        [] al.tag = "Panic" -> "panic"
                        [] OTHER -> "skip"

\* `if min.is_none() || min.as_ref().map(|l| l < &lifetime) == Some(true)
\*  { min = Some(lifetime); }`
Pick(min, lifetime) ==
    IF min = NoLifetime \/ LtLess(min, lifetime) THEN lifetime ELSE min

RECURSIVE Lifetime(_, _, _)
RECURSIVE Fold(_, _, _, _, _, _)

\* The loop over the children of node k from position j on, with the `min`
\* and the `call_arg_ind` it has reached.
Fold(ns, an, k, j, min, call_arg_ind) ==
    LET self == At(ns, k)
    IN  IF j > Len(self.children) THEN min
        ELSE
        LET c == self.children[j]
            ckind == At(ns, c).kind
            arm == Arm(self.kind, ckind)
            arm2 == IF arm = "call_arg"
                    THEN CallArgArm(ns, an, self, call_arg_ind)
                    ELSE arm
            ind2 == IF arm = "call_arg" THEN call_arg_ind + 1
                    ELSE call_arg_ind
        IN  CASE arm2 = "panic" -> Panicked
              [] arm2 = "skip" -> Fold(ns, an, k, j + 1, min, ind2)
              [] OTHER ->
                   LET lifetime == Lifetime(ns, an, c)
                   IN  IF Abnormal(lifetime) THEN lifetime
                       ELSE IF lifetime = NoLifetime
                       THEN Fold(ns, an, k, j + 1, min, ind2)
                       ELSE Fold(ns, an, k, j + 1, Pick(min, lifetime), ind2)

\* Node::lifetime of node k.
Lifetime(ns, an, k) ==
    LET self == At(ns, k)
        case == CaseOf(self)
        walk == WalkArgs(self.lts, 1)
    IN  CASE case = "NoLifetime" -> NoLifetime
          [] case = "Declared" -> Declared(ns, an, Unwrap(self.declaration))
          [] case = "ReturnItem" -> Return(<<>>)
          [] case = "Intrinsic" /\ walk = "static" -> NoLifetime
          [] case = "Intrinsic" /\ walk = "Loop" -> Diverges
          [] case = "Intrinsic" /\ walk = "Panic" -> Panicked
          [] OTHER -> Fold(ns, an, k, 1, NoLifetime, 0)

-----------------------------------------------------------------------------
(* The solver's inputs: node arrays as the builder and the name resolver   *)
(* leave them, and the queries made of them.                               *)

\* Sequences over S of length at most n.
SeqsUpTo(S, n) == UNION {[1..m -> S] : m \in 0..n}

\* A node of the given kind, declaration, names, lifetime annotation and
\* lts, with its links.
Mk(kind, parent, children, declaration, names, lifetime, ls) ==
    [NewNode(kind, DefaultTy(kind), parent, 0) EXCEPT
        !.children = children, !.declaration = declaration,
        !.names = names, !.lifetime = lifetime, !.lts = ls]

\* The declarations every array of the model starts with: a function (0)
\* with the arguments a (1) and b (3) around a current object (2), and the
\* Item of a local binding (4). la and lb are the lifetime annotations of a
\* and b.
Decls(la, lb) ==
    <<Mk("Closure", None, <<1, 2, 3>>, None, <<Str("f")>>, None, <<>>),
      Mk("Arg", Some(0), <<>>, None, <<Str("a")>>, la, <<>>),
      Mk("Current", Some(0), <<>>, None, <<Str("c")>>, None, <<>>),
      Mk("Arg", Some(0), <<>>, None, <<Str("b")>>, lb, <<>>),
      Mk("Item", None, <<>>, None, <<Str("x")>>, None, <<>>)>>
\* The index of the expression's first node, the one after the declarations.
FirstExpr == Len(Decls(None, None))

\* ArgNames of the function 0.
ArgNamesOf ==
    {[parent |-> Some(0), name |-> Str("a"), arg |-> 1, ind |-> 0],
     [parent |-> Some(0), name |-> Str("b"), arg |-> 3, ind |-> 1]}

Annotations == {None, Some(Str("return")), Some(Str("b"))}

\* The forms of an Item: its declaration and its names.
Form(declaration, names) == [declaration |-> declaration, names |-> names]
NoForm == Form(None, <<>>)
LocalItem == Form(Some(4), <<Str("x")>>)
ReturnItem == Form(None, <<Str("return")>>)
ItemForms ==
    {LocalItem, ReturnItem,
     Form(Some(1), <<Str("a")>>), Form(Some(2), <<Str("c")>>),
     Form(None, <<Str("y")>>), Form(Some(4), <<Str("return")>>)}

\* A child of the queried node: its kind, its form, and the form of the one
\* Item below it, if any.
Sub(kind, form, leaf) == [kind |-> kind, form |-> form, leaf |-> leaf]
Leaves == {None, Some(LocalItem), Some(ReturnItem)}
SubKinds ==
    {"CallArg", "Add", "Compare", "UnOp", "Cond", "ElseIfCond", "TrueBlock"}
Subs ==
    {Sub(k, NoForm, l) : k \in SubKinds, l \in Leaves}
    \cup {Sub("Item", f, None) : f \in ItemForms}
    \cup {Sub("Item", LocalItem, Some(ReturnItem))}
CallArgs == {Sub("CallArg", NoForm, l) : l \in Leaves \cup {Some(Form(Some(1), <<Str("a")>>))}}

\* The kinds and forms of the queried node.
Roots ==
    {Sub(k, NoForm, None) :
        k \in {"Add", "Mul", "Compare", "If", "Block", "Call", "CallClosure",
               "Pow"}}
    \cup {Sub("Item", f, None) : f \in ItemForms}

\* The array ns with the subtrees subs[j..] added below node r.
RECURSIVE AddSubs(_, _, _, _)
AddSubs(ns, r, subs, j) ==
    IF j > Len(subs) THEN ns
    ELSE LET c == Len(ns)
             sub == subs[j]
             node == Mk(sub.kind, Some(r),
                        IF IsSome(sub.leaf) THEN <<c + 1>> ELSE <<>>,
                        sub.form.declaration, sub.form.names, None, <<>>)
             leaf == Mk("Item", Some(c), <<>>,
                        Unwrap(sub.leaf).declaration, Unwrap(sub.leaf).names,
                        None, <<>>)
             with == IF IsSome(sub.leaf) THEN <<node, leaf>> ELSE <<node>>
             linked == [ns EXCEPT ![r + 1] =
                           [@ EXCEPT !.children = Append(@, c)]]
         IN  AddSubs(linked \o with, r, subs, j + 1)

\* The array of the declarations and one expression: the node FirstExpr of
\* kind root.kind with the declaration and lts given, over the subtrees subs.
Tree(la, lb, root, declaration, ls, subs) ==
    AddSubs(Decls(la, lb)
              \o <<Mk(root.kind, None, <<>>, declaration, root.form.names,
                      None, ls)>>,
            FirstExpr, subs, 1)

\* The lts of the model: every Arg(x) within range.
LtsOfLen(m) == [1..m -> {LtDefault, LtReturn} \cup {LtArg(x) : x \in 0..(m - 1)}]
LtsSet == UNION {LtsOfLen(m) : m \in 1..MaxLts}

\* Expressions of every kind over every pair of subtrees.
InitTrees ==
    \E root \in Roots, subs \in SeqsUpTo(Subs, MaxChildren) :
        nodes = Tree(None, Some(Str("return")), root, root.form.declaration,
                     <<>>, subs)

\* Intrinsic calls: no declaration, any lts.
InitIntrinsics ==
    \E ls \in LtsSet, subs \in SeqsUpTo(CallArgs, MaxChildren) :
        nodes = Tree(None, Some(Str("return")), Sub("Call", NoForm, None),
                     None, ls, subs)

\* Calls of the function 0, whose arguments carry any annotations.
InitCalls ==
    \E la \in Annotations, lb \in Annotations \ {Some(Str("b"))},
       ls \in {<<>>, <<LtDefault>>, <<LtReturn>>},
       subs \in SeqsUpTo(CallArgs, MaxChildren) :
        nodes = Tree(la, lb, Sub("Call", NoForm, None), Some(0), ls, subs)

\* Calls of the function 0, or of a declaration without arguments (4),
\* over CallArg children mixed with Items.
MixedSubs ==
    CallArgs \cup {Sub("Item", LocalItem, None), Sub("Item", ReturnItem, None)}
InitMixedCalls ==
    \E la \in Annotations, lb \in Annotations \ {Some(Str("b"))},
       declaration \in {Some(0), Some(4)},
       subs \in SeqsUpTo(MixedSubs, MaxChildren) :
        nodes = Tree(la, lb, Sub("Call", NoForm, None), declaration, <<>>,
                     subs)

InitSolver ==
    /\ InitTrees \/ InitIntrinsics \/ InitCalls \/ InitMixedCalls
    /\ arg_names = ArgNamesOf
    /\ query = None
    /\ result = NoLifetime
    /\ parents = <<>>
    /\ skip = None
    /\ i = 0
    /\ d = NoEvent
    /\ status = Ok
    /\ lts = <<>>
    /\ lt_ind = 0
    /\ lt = LtDefault
    /\ pc = "idle"

\* nodes[k].lifetime(nodes, arg_names) is asked for.
Query(k) ==
    /\ query = None
    /\ query' = Some(k)
    /\ result' = Lifetime(nodes, arg_names, k)
    /\ UNCHANGED <<nodes, arg_names, builder_vars, chain_vars>>

NextSolver == Query(FirstExpr)

SpecSolver == InitSolver /\ [][NextSolver]_vars

-----------------------------------------------------------------------------
(* The walk over the lts of an intrinsic Call, one step per turn of the    *)
(* inner loop.                                                             *)

InitChain ==
    /\ lts \in LtsSet
    /\ lt_ind = 0
    /\ lt = lts[1]
    /\ pc = "loop"
    /\ nodes = <<>>
    /\ arg_names = {}
    /\ query = None
    /\ result = NoLifetime
    /\ parents = <<>>
    /\ skip = None
    /\ i = 0
    /\ d = NoEvent
    /\ status = Ok

\* `Lt::Default => continue 'args`: on to the next constraint, or out of the
\* loop with returns_static true, and `return None`.
ChainDefault ==
    /\ pc = "loop"
    /\ lt.tag = "Default"
    /\ lt_ind' = lt_ind + 1
    /\ IF lt_ind + 1 < Len(lts)
       THEN lt' = lts[lt_ind + 2] /\ pc' = pc
       ELSE lt' = lt /\ pc' = "static"
    /\ UNCHANGED <<lts, nodes, builder_vars, solver_vars>>

\* `Lt::Return => returns_static = false; break 'args`: on to the children.
ChainReturn ==
    /\ pc = "loop"
    /\ lt.tag = "Return"
    /\ pc' = "children"
    /\ UNCHANGED <<lts, lt_ind, lt, nodes, builder_vars, solver_vars>>

\* `match lt { .. Lt::Arg(x) => ..`: into the arm of Arg.
ChainArg ==
    /\ pc = "loop"
    /\ lt.tag = "Arg"
    /\ pc' = "arg"
    /\ UNCHANGED <<lts, lt_ind, lt, nodes, builder_vars, solver_vars>>

\* `lt = self.lts[x]; continue`: back to the head of the inner loop.
ChainFollow ==
    /\ pc = "arg"
    /\ IF lt.arg < Len(lts)
       THEN lt' = lts[lt.arg + 1] /\ pc' = "loop"
       ELSE lt' = lt /\ pc' = "panic"
    /\ UNCHANGED <<lts, lt_ind, nodes, builder_vars, solver_vars>>

NextChain == ChainDefault \/ ChainReturn \/ ChainArg \/ ChainFollow

\* The loop is sequential code: it takes its next step whenever it has one.
SpecChain == InitChain /\ [][NextChain]_vars /\ WF_vars(NextChain)

-----------------------------------------------------------------------------
(* Properties of convert_meta_data.                                        *)

NodeIds == 0..(Len(nodes) - 1)
Range(s) == {s[k] : k \in 1..Len(s)}
TypeKinds == {"Type", "RetType"}

\* The step reads an event and handles it (it is neither skipped as part of
\* a parsed type subtree, nor the return at the end of the stream).
Handled == ~Skipping /\ status'.tag # "Ok"

ChildrenPointBack ==
    \A k \in NodeIds :
        \A c \in Range(At(nodes, k).children) :
            c \in NodeIds /\ At(nodes, c).parent = Some(k)

RootHasNoParent ==
    (Handled /\ Len(nodes') = Len(nodes) + 1 /\ parents = <<>>)
        => Last(nodes').parent = None

\* C1: in every state of the builder each child of a node has that node as
\* its parent, and a node pushed while the parent stack is empty has no
\* parent.
C1_ParentChildrenAgree == []ChildrenPointBack /\ [][RootHasNoParent]_vars

\* C1 witness: a root with two ended children and no parent.
C1_Witness ==
    /\ Len(nodes) >= 3
    /\ At(nodes, 0).parent = None
    /\ Len(At(nodes, 0).children) = 2

\* C7 as claimed: every node of the array has start <= end, the nodes that
\* have not ended included.
C7_StartLeEnd == \A k \in NodeIds : At(nodes, k).start <= At(nodes, k).end

\* C7 amended: a node that has ended has start < end; a node that is still
\* open (on the parent stack) has end = 0, whatever its start.
C7_EndedStartLtEnd ==
    \A k \in NodeIds :
        IF k \in Range(parents)
        THEN At(nodes, k).end = 0
        ELSE At(nodes, k).start < At(nodes, k).end

\* C7 witness: an open node that starts after the first event, beside a node
\* that has ended.
C7_Witness ==
    \E k, j \in NodeIds :
        /\ k \in Range(parents) /\ At(nodes, k).start > 0
        /\ j \notin Range(parents) /\ At(nodes, j).start > 0

IsTypeStart(e) == e.type = "StartNode" /\ e.key \in TypeKinds

TypeAccepted ==
    (Handled /\ IsTypeStart(d') /\ d'.parse.ok /\ parents # <<>>)
        => /\ Len(nodes') = Len(nodes)
           /\ parents' = parents
           /\ status' = status
           /\ skip' = Some(d'.parse.next_offset + i)
           /\ \A k \in NodeIds :
                 At(nodes', k) =
                    IF k = Last(parents)
                    THEN [At(nodes, k) EXCEPT !.ty = Some(d'.parse.val)]
                    ELSE At(nodes, k)

TypeSubtreeSkipped == Skipping => (nodes' = nodes /\ parents' = parents)

TypeRefused ==
    (Handled /\ IsTypeStart(d') /\ ~d'.parse.ok)
        => /\ status' = status
           /\ Len(nodes') = Len(nodes) + 1
           /\ Last(nodes').kind = d'.key
           /\ parents' = Append(parents, Len(nodes))
           /\ skip' = skip

IsGrabLevel(e) == e.type = "F64" /\ e.key = "grab_level"

GrabLevelRejected ==
    (Handled /\ IsGrabLevel(d') /\ d'.nval < Scale)
        => /\ status'.tag = "Err"
           /\ status'.range = RangeOf(i)
           /\ nodes' = nodes

GrabLevelSetAtLeastOne ==
    \A k \in NodeIds :
        (k + 1 \in DOMAIN nodes'
         /\ At(nodes', k).grab_level # At(nodes, k).grab_level)
            => At(nodes', k).grab_level >= 1

\* C9: a grab_level event with a value below 1 ends the builder with an error
\* at that event's range and changes no node; a grab_level that is written is
\* at least 1, so that every node's grab_level is 0 or at least 1.
C9_GrabLevel ==
    /\ [](\A k \in NodeIds :
            At(nodes, k).grab_level = 0 \/ At(nodes, k).grab_level >= 1)
    /\ [][GrabLevelRejected /\ GrabLevelSetAtLeastOne]_vars

\* C9 witness: the builder stopped at a grab_level below 1 after a node got
\* a grab level.
C9_Witness ==
    /\ status.tag = "Err"
    /\ IsGrabLevel(d) /\ d.nval < Scale
    /\ \E k \in NodeIds : At(nodes, k).grab_level >= 1

-----------------------------------------------------------------------------
(* Properties of Node::lifetime.                                           *)

\* The nodes of the expression.
ExprIds == FirstExpr..(Len(nodes) - 1)
L(k) == Lifetime(nodes, arg_names, k)
KindOf(k) == At(nodes, k).kind
ChildrenOf(k) == At(nodes, k).children

\* The lifetime of node k was asked for.
Asked(k) == query = Some(k)

\* Node k gets its lifetime from its children.
Aggregates(k) ==
    \/ CaseOf(At(nodes, k)) = "Children"
    \/ /\ CaseOf(At(nodes, k)) = "Intrinsic"
       /\ WalkArgs(At(nodes, k).lts, 1) = "borrows"

\* The CallArg children of k before position j.
CallArgsBefore(k, j) ==
    Cardinality({m \in 1..(j - 1) : KindOf(ChildrenOf(k)[m]) = "CallArg"})

\* The child at position j of k is not skipped.
Contributes(k, j) ==
    LET arm == Arm(KindOf(k), KindOf(ChildrenOf(k)[j]))
    IN  \/ arm = "child"
        \/ /\ arm = "call_arg"
           /\ CallArgArm(nodes, arg_names, At(nodes, k),
                         CallArgsBefore(k, j)) = "child"

\* The lifetimes the children of k contribute.
Contributions(k) ==
    {L(ChildrenOf(k)[j]) :
        j \in {m \in 1..Len(ChildrenOf(k)) :
                 Contributes(k, m) /\ IsLifetime(L(ChildrenOf(k)[m]))}}

\* C2: the lifetime a node gets from its children is the smallest of those
\* the children contribute (no contributed lifetime is smaller than it), and
\* it is none only when no child contributes one.
C2_SmallestOfChildren ==
    \A k \in ExprIds :
        (Asked(k) /\ Aggregates(k) /\ ~Abnormal(result))
            => /\ \A l \in Contributions(k) : ~LtLess(l, result)
               /\ (result = NoLifetime) <=> (Contributions(k) = {})

\* Every constraint of ls ends at Default once its Arg links are followed.
AllDefault(ls) == \A j \in 1..Len(ls) : ChainEnd(ls, ls[j], {}) = "Default"

\* C3 as claimed: a Call with a non-empty lts whose every constraint ends at
\* Default has no lifetime, whatever its children and its declaration.
C3_AllDefaultIsNone ==
    \A k \in ExprIds :
        (Asked(k) /\ KindOf(k) = "Call" /\ Len(At(nodes, k).lts) > 0
         /\ AllDefault(At(nodes, k).lts))
            => result = NoLifetime

\* C3 amended: a Call without a declaration, with a non-empty lts whose
\* every constraint ends at Default, has no lifetime, whatever its children.
C3_IntrinsicAllDefaultIsNone ==
    \A k \in ExprIds :
        (Asked(k) /\ KindOf(k) = "Call" /\ At(nodes, k).declaration = None
         /\ Len(At(nodes, k).lts) > 0 /\ AllDefault(At(nodes, k).lts))
            => result = NoLifetime

\* C3 witness: the lifetime of an intrinsic Call was asked for whose lts
\* reach Default through an Arg link and whose CallArg has a lifetime; the
\* answer was none.
C3_Witness ==
    /\ Asked(FirstExpr)
    /\ result = NoLifetime
    /\ KindOf(FirstExpr) = "Call"
    /\ At(nodes, FirstExpr).declaration = None
    /\ AllDefault(At(nodes, FirstExpr).lts)
    /\ \E j \in 1..Len(At(nodes, FirstExpr).lts) :
          At(nodes, FirstExpr).lts[j].tag = "Arg"
    /\ \E c \in Range(ChildrenOf(FirstExpr)) :
          KindOf(c) = "CallArg" /\ IsLifetime(L(c))

\* Node k is a CallArg over one Item.
CallArgOverItem(k) ==
    /\ KindOf(k) = "CallArg"
    /\ Len(ChildrenOf(k)) = 1
    /\ KindOf(ChildrenOf(k)[1]) = "Item"

\* C4: an intrinsic Call with lts = [Return, Default] over two CallArgs, the
\* first over an Item of lifetime Local(d), the second over an Item named
\* `return` without declaration, has the lifetime Local(d).
C4_ReturnDefaultCall ==
    \A k \in ExprIds :
        (/\ Asked(k)
         /\ KindOf(k) = "Call"
         /\ At(nodes, k).declaration = None
         /\ At(nodes, k).lts = <<LtReturn, LtDefault>>
         /\ Len(ChildrenOf(k)) = 2
         /\ CallArgOverItem(ChildrenOf(k)[1])
         /\ CallArgOverItem(ChildrenOf(k)[2])
         /\ L(ChildrenOf(ChildrenOf(k)[1])[1]).tag = "Local"
         /\ At(nodes, ChildrenOf(ChildrenOf(k)[2])[1]).declaration = None
         /\ Name(At(nodes, ChildrenOf(ChildrenOf(k)[2])[1]))
               = Some(Str("return")))
            => result = L(ChildrenOf(ChildrenOf(k)[1])[1])

\* C5: the lifetime of an Item with the declaration d is arg_lifetime of d
\* when nodes[d] is an Arg, Current(d) when it is a Current and Local(d)
\* otherwise, whatever the children and the names of the Item.
C5_DeclaredItem ==
    \A k \in ExprIds :
        (Asked(k) /\ KindOf(k) = "Item" /\ IsSome(At(nodes, k).declaration))
            => LET decl == Unwrap(At(nodes, k).declaration)
               IN  result =
                     CASE KindOf(decl) = "Arg" ->
                            ArgLifetime(decl, At(nodes, decl), nodes,
                                        arg_names)
                       [] KindOf(decl) = "Current" -> Current(decl)
                       [] OTHER -> Local(decl)

\* C5 witness: the lifetime of an Item named `return`, declared by a local
\* binding and with a child named `return`, was asked for and is Local.
C5_Witness ==
    /\ Asked(FirstExpr)
    /\ KindOf(FirstExpr) = "Item"
    /\ IsSome(At(nodes, FirstExpr).declaration)
    /\ Name(At(nodes, FirstExpr)) = Some(Str("return"))
    /\ Len(ChildrenOf(FirstExpr)) > 0
    /\ result = Local(Unwrap(At(nodes, FirstExpr).declaration))

PassThrough(k) ==
    KindOf(k) \in {"Add", "Mul", "Compare"} /\ At(nodes, k).declaration = None

\* C6 as claimed: an Add, Mul or Compare without declaration has the
\* lifetime of its child when it has exactly one, whatever the child's kind,
\* and none when it has two or more.
C6_SingleChildPropagates ==
    \A k \in ExprIds :
        (Asked(k) /\ PassThrough(k))
            => /\ Len(ChildrenOf(k)) = 1 => result = L(ChildrenOf(k)[1])
               /\ Len(ChildrenOf(k)) >= 2 => result = NoLifetime

\* The kinds of children whose lifetime never counts.
SkippedKinds ==
    {"Start", "End", "Arg", "Current", "UnOp", "Compare", "Cond",
     "ElseIfCond", "N"}

\* C6 amended: an Add, Mul or Compare without declaration has no lifetime
\* when it has two or more children; with exactly one child it has no
\* lifetime when the child is a Start, End, Arg, Current, UnOp, Compare,
\* Cond, ElseIfCond or N, it panics when the child is a CallArg, and it has
\* the lifetime of the child for the other kinds of the model.
C6_SingleChildUnlessSkipped ==
    \A k \in ExprIds :
        (Asked(k) /\ PassThrough(k))
            => /\ Len(ChildrenOf(k)) = 1 =>
                    result =
                      CASE KindOf(ChildrenOf(k)[1]) \in SkippedKinds ->
                             NoLifetime
                        [] KindOf(ChildrenOf(k)[1]) = "CallArg" -> Panicked
                        [] OTHER -> L(ChildrenOf(k)[1])
               /\ Len(ChildrenOf(k)) >= 2 => result = NoLifetime

\* C6 witness: the lifetime of an Add, Mul or Compare over one UnOp was asked
\* for; the UnOp has a lifetime and the node has none.
C6_Witness ==
    /\ Asked(FirstExpr)
    /\ KindOf(FirstExpr) \in {"Add", "Mul", "Compare"}
    /\ Len(ChildrenOf(FirstExpr)) = 1
    /\ KindOf(ChildrenOf(FirstExpr)[1]) = "UnOp"
    /\ IsLifetime(L(ChildrenOf(FirstExpr)[1]))
    /\ result = NoLifetime

\* C10: the walk over the lts of an intrinsic Call, every Arg(x) of which is
\* within range, comes to an end.
C10_ChainWalkEnds == <>(pc \in {"static", "children", "panic"})

-----------------------------------------------------------------------------
(* The matching of CallArg children to declared arguments.                 *)

\* Node k is a Call with a declaration.
DeclaredCall(k) ==
    /\ KindOf(k) = "Call"
    /\ IsSome(At(nodes, k).declaration)
    /\ Unwrap(At(nodes, k).declaration) < Len(nodes)

\* The Arg the child at position j of the call k is matched to: the Arg of
\* the declaration at the child's position among the CallArg children, if
\* the declaration has that many.
MatchedArg(k, j) ==
    LET args == ArgsOf(nodes, Unwrap(At(nodes, k).declaration))
        pos == CallArgsBefore(k, j)
    IN  IF pos < Len(args) THEN Some(args[pos + 1]) ELSE None

\* arg_lifetime of the matched Arg is Return(_).
MatchedReturn(k, j) ==
    LET arg == Unwrap(MatchedArg(k, j))
    IN  ArgLifetime(arg, At(nodes, arg), nodes, arg_names).tag = "Return"

\* The child at position j of the call k is to contribute: a CallArg when
\* its matched Arg is Return(_) (or there is no such Arg), another child by
\* its kind.
Counts(k, j) ==
    IF KindOf(ChildrenOf(k)[j]) = "CallArg"
    THEN MatchedArg(k, j) = None \/ MatchedReturn(k, j)
    ELSE Arm(KindOf(k), KindOf(ChildrenOf(k)[j])) = "child"

\* The result of folding the lifetimes of the children that are to
\* contribute, from position j on.
RECURSIVE Expected(_, _, _)
Expected(k, j, min) ==
    IF j > Len(ChildrenOf(k)) THEN min
    ELSE LET l == L(ChildrenOf(k)[j])
         IN  IF Counts(k, j) /\ l # NoLifetime
             THEN Expected(k, j + 1, Pick(min, l))
             ELSE Expected(k, j + 1, min)

\* C11: for a Call with a declaration, the k-th CallArg child (counting
\* CallArg children only) is matched to the k-th Arg of the declaration and,
\* when that Arg exists, contributes its lifetime exactly when arg_lifetime
\* of that Arg is Return(_); the position advances by one for every CallArg,
\* skipped or not, so the call's lifetime is the fold over exactly the
\* children matched in this way.
C11_CallArgMatching ==
    \A k \in ExprIds :
        (/\ Asked(k)
         /\ DeclaredCall(k)
         /\ \A j \in 1..Len(ChildrenOf(k)) : ~Abnormal(L(ChildrenOf(k)[j])))
        => result = Expected(k, 1, NoLifetime)

\* A call whose first CallArg is skipped (its Arg is not Return) and whose
\* second CallArg, matched to the second Arg, gives the call its lifetime.
C11_Witness ==
    \E k \in ExprIds :
        /\ Asked(k)
        /\ DeclaredCall(k)
        /\ Len(ChildrenOf(k)) = 2
        /\ \A j \in 1..2 : KindOf(ChildrenOf(k)[j]) = "CallArg"
        /\ \A j \in 1..2 : IsLifetime(L(ChildrenOf(k)[j]))
        /\ MatchedArg(k, 1) # None /\ ~MatchedReturn(k, 1)
        /\ MatchedArg(k, 2) # None /\ MatchedReturn(k, 2)
        /\ L(ChildrenOf(k)[1]) # L(ChildrenOf(k)[2])
        /\ result = L(ChildrenOf(k)[2])

-----------------------------------------------------------------------------
(* Conditions.                                                             *)

CondKinds == {"Cond", "ElseIfCond"}

\* The array ns with nothing left below its Cond and ElseIfCond nodes.
Pruned(ns) ==
    [m \in 1..Len(ns) |->
        IF ns[m].kind \in CondKinds
        THEN [ns[m] EXCEPT !.children = <<>>]
        ELSE ns[m]]

\* Node k has a Cond or ElseIfCond child with something below it.
HasCond(k) ==
    \E j \in 1..Len(ChildrenOf(k)) :
        /\ KindOf(ChildrenOf(k)[j]) \in CondKinds
        /\ Len(ChildrenOf(ChildrenOf(k)[j])) > 0

\* The example If{Cond{Item local}, TrueBlock{Item `return`}} at node k.
IfCondExample(k) ==
    /\ KindOf(k) = "If"
    /\ At(nodes, k).declaration = None
    /\ Len(ChildrenOf(k)) = 2
    /\ LET cond == ChildrenOf(k)[1]
           block == ChildrenOf(k)[2]
       IN  /\ KindOf(cond) = "Cond"
           /\ Len(ChildrenOf(cond)) = 1
           /\ KindOf(ChildrenOf(cond)[1]) = "Item"
           /\ L(ChildrenOf(cond)[1]).tag = "Local"
           /\ KindOf(block) = "TrueBlock"
           /\ Len(ChildrenOf(block)) = 1
           /\ KindOf(ChildrenOf(block)[1]) = "Item"
           /\ At(nodes, ChildrenOf(block)[1]).declaration = None
           /\ Name(At(nodes, ChildrenOf(block)[1])) = Some(Str("return"))

\* C12: a Cond or ElseIfCond child never influences its parent's lifetime:
\* the lifetime of a node is the one it has with nothing below its Cond and
\* ElseIfCond children, and the lifetime of
\* If{Cond{Item local}, TrueBlock{Item `return`}} is Return([]).
C12_CondNeverInfluences ==
    \A k \in ExprIds :
        /\ Asked(k) /\ KindOf(k) \notin CondKinds
           => result = Lifetime(Pruned(nodes), arg_names, k)
        /\ Asked(k) /\ IfCondExample(k) => result = Return(<<>>)

\* The lifetime of the example If was asked for.
C12_Witness ==
    \E k \in ExprIds : Asked(k) /\ IfCondExample(k) /\ HasCond(k)
                         /\ result = Return(<<>>)

====
